---- MODULE Spec2Model ----
(***************************************************************************)
(* BioSim: the island grid of UnitArea cells (ecosystem/unit_area.py) and  *)
(* the yearly cycle of BioSim.simulate (simulation.py).                    *)
(*                                                                         *)
(* Spec      the BioSim program: populate the island, then simulate.       *)
(* AreaSpec  the UnitArea operations, called in the annual-cycle order.    *)
(* CtorSpec  AreaSpec over cells built by UnitArea.__init__ with animals.  *)
(* BioSimSpec  Spec from the island_map argument on: _make_island first.   *)
(* SeedSpec  two runs of Spec on the same arguments, with the generator of *)
(*           the random module followed through its draws.                 *)
(***************************************************************************)
EXTENDS Integers, Sequences, FiniteSets, TLC

\* ---------------------------------------------------------------- bounds
MaxYears == 2
MaxAnimals == 3

\* the island of the test fixture: "WWWW\nWHLW\nWWWW", 3 rows of 4 cells
Rows == 3
Cols == 4

NCells == Rows * Cols
CellIds == 1..NCells
\* row-major position of a cell, 0-indexed as in cells[row][col]
RowOf(c) == (c - 1) \div Cols
ColOf(c) == (c - 1) % Cols
CellAt(r, k) == r * Cols + k + 1

Min(a, b) == IF a <= b THEN a ELSE b
Max(a, b) == IF a >= b THEN a ELSE b

RECURSIVE Pow2(_)
Pow2(n) == IF n <= 0 THEN 1 ELSE 2 * Pow2(n - 1)

RECURSIVE SumWeights(_)
SumWeights(s) == IF s = <<>> THEN 0 ELSE Head(s).weight + SumWeights(Tail(s))

Ids(s) == {s[i].id : i \in 1..Len(s)}
CountIn(s, i) == Cardinality({k \in 1..Len(s) : s[k].id = i})

\* ------------------------------------------------------------- geography
\* Geography subclasses: f_max and can_animals_move_here / can_be_border
GeoCodes == {"W", "D", "L", "H"}
FMax(g) == CASE g = "L" -> 2 [] g = "H" -> 1 [] OTHER -> 0
CanAnimalsMoveHere(g) == g # "W"
CanBeBorder(g) == g = "W"

IsBorder(c) ==
    \/ RowOf(c) = 0 \/ RowOf(c) = Rows - 1
    \/ ColOf(c) = 0 \/ ColOf(c) = Cols - 1

\* the maps an island is made of: water on the border, the inner cells
\* taking one of a few two-terrain patterns
Patterns == {<<"W", "W">>, <<"L", "H">>, <<"D", "W">>}
MapOf(p) == [c \in CellIds |->
               IF IsBorder(c) THEN "W" ELSE p[((RowOf(c) + ColOf(c)) % 2) + 1]]
Maps == {MapOf(p) : p \in Patterns}

\* (variant: a code that is none of the four gives Water)
AssignGeoDefaultWater(code) ==
    IF code \in GeoCodes THEN [geo |-> code, err |-> "none"]
    ELSE [geo |-> "W", err |-> "none"]

\* _assign_geo: the Geography of a code, ValueError for any other value
AssignGeo(code) ==
    CASE code = "H" -> [geo |-> "H", err |-> "none"]
      [] code = "L" -> [geo |-> "L", err |-> "none"]
      [] code = "W" -> [geo |-> "W", err |-> "none"]
      [] code = "D" -> [geo |-> "D", err |-> "none"]
      [] OTHER -> [geo |-> "none", err |-> "ValueError"]

\* the characters a map is written with: the four codes and two others
Codes == GeoCodes \cup {"A", "*"}

\* the island_map argument: None, or the lines of the string, each the
\* sequence of its characters
NoMap == [none |-> TRUE, rows |-> <<>>]
Given(rows) == [none |-> FALSE, rows |-> rows]
LinesOf(g) == [r \in 1..Rows |-> [k \in 1..Cols |-> g[CellAt(r - 1, k - 1)]]]
WaterRow == [k \in 1..Cols |-> "W"]
\* maps with lines of unequal length
RaggedMaps == {
    <<WaterRow, <<"W", "W", "W">>, WaterRow>>,
    <<WaterRow, <<"W", "L", "W", "W">>, <<"W", "W", "W", "W", "W", "W">>>>,
    <<WaterRow, <<"W", "L", "W">>, <<"W", "W", "W", "W">>>> }
\* maps with a cell other than Water in the first or last row or column
OpenMaps == {
    <<<<"L", "W", "W", "W">>, WaterRow, <<"W", "W", "W", "L">>>>,
    <<WaterRow, <<"W", "L", "H", "W">>, <<"W", "W", "D", "W">>>>,
    <<WaterRow, <<"W", "L", "H", "L">>, WaterRow>>,
    <<WaterRow, <<"H", "L", "W", "W">>, WaterRow>> }
\* maps with a character that is no code
MiscodedMaps == {
    <<WaterRow, <<"W", "A", "H", "W">>, WaterRow>>,
    <<WaterRow, <<"W", "L", "*", "W">>, WaterRow>>,
    <<<<"*", "W", "W", "W">>, <<"W", "L", "W">>, WaterRow>> }
RawMaps == {NoMap} \cup {Given(LinesOf(g)) : g \in Maps}
           \cup {Given(m) : m \in RaggedMaps \cup OpenMaps \cup MiscodedMaps}

\* the positions of the characters of a map
Places(rows) == {<<r, k>> \in (1..Len(rows)) \X (1..6) : k <= Len(rows[r])}
\* a UnitArea cannot be built for some character of the map
Miscoded(rows) == \E p \in Places(rows) : AssignGeo(rows[p[1]][p[2]]).err # "none"

\* Rossumoya(island_cells): the rows are of equal length and the cells of
\* the first and last row and column can be border
Rectangular(rows) == \A r \in 1..Len(rows) : Len(rows[r]) = Len(rows[1])
WaterBorder(rows) ==
    \A p \in Places(rows) :
        (p[1] = 1 \/ p[1] = Len(rows) \/ p[2] = 1 \/ p[2] = Len(rows[p[1]]))
            => CanBeBorder(rows[p[1]][p[2]])
Rossumoya(rows) ==
    IF Len(rows) >= 1 /\ Rectangular(rows) /\ WaterBorder(rows)
    THEN "none" ELSE "ValueError"

\* (variant: the cells are kept as they are, not handed to Rossumoya)
MakeIslandOfUnchecked(map) ==
    IF map.none THEN "ValueError"
    ELSE IF Miscoded(map.rows) THEN "ValueError"
    ELSE "none"

\* _make_island: ValueError for None, a UnitArea for every character (which
\* raises for a character that is no code), then Rossumoya(island_cells)
MakeIslandOf(map) ==
    IF map.none THEN "ValueError"
    ELSE IF Miscoded(map.rows) THEN "ValueError"
    ELSE Rossumoya(map.rows)

\* the geography of the cells of an island built from the lines of a map
GeoOf(rows) ==
    [c \in CellIds |->
        IF RowOf(c) < Len(rows) /\ ColOf(c) < Len(rows[RowOf(c) + 1])
        THEN AssignGeo(rows[RowOf(c) + 1][ColOf(c) + 1]).geo ELSE "W"]

\* ----------------------------------------------------------------- fauna
\* species parameters (set_animal_parameters values, small and in domain)
HerbParams == [F |-> 1, beta |-> 1, xi |-> 1, a_half |-> 2, w_half |-> 2]
CarnParams == [F |-> 3, beta |-> 1, xi |-> 1, a_half |-> 2, w_half |-> 3]
Species == {"Herbivore", "Carnivore"}
ParamsOf(sp) == IF sp = "Herbivore" THEN HerbParams ELSE CarnParams
\* the weight a newborn is sampled with
BirthWeights == {2}

Animal(i, a, w) == [id |-> i, age |-> a, weight |-> w, has_moved |-> FALSE]

\* fitness = q(+1, age) * q(-1, weight), logistic with phi = ln 2, as the
\* fraction <<numerator, denominator>>; zero when weight <= 0
Fitness(an, pr) ==
    IF an.weight <= 0 THEN <<0, 1>>
    ELSE <<Pow2(pr.a_half) * Pow2(an.weight),
           (Pow2(pr.a_half) + Pow2(an.age)) * (Pow2(an.weight) + Pow2(pr.w_half))>>
FitLess(f, g) == f[1] * g[2] < g[1] * f[2]
FitLeq(f, g) == f[1] * g[2] <= g[1] * f[2]

\* feed_and_gain_weight: the herbivore after eating, and the fodder left
FeedAndGainWeight(an, fodder) ==
    LET intake == Min(HerbParams.F, fodder)
    IN  [animal |-> [an EXCEPT !.weight = @ + HerbParams.beta * intake],
         left |-> fodder - intake]

\* get_older, lose_weight (eta = 1/2, rounded up on the integer grid)
GetOlder(an) == [an EXCEPT !.age = @ + 1]
LoseWeight(an) == [an EXCEPT !.weight = @ - (@ \div 2)]
\* maybe_die: certain when weight <= 0, a draw otherwise
MustDie(an) == an.weight <= 0

\* procreate(n): the parent afterwards and the newborn's weight (0: no birth).
\* d is the draw: 0 for no birth, else the sampled newborn weight
Procreate(an, n, d, pr) ==
    IF n < 2 \/ an.weight <= 0 \/ d = 0 \/ an.weight < pr.xi * d
    THEN [parent |-> an, baby |-> 0]
    ELSE [parent |-> [an EXCEPT !.weight = @ - pr.xi * d], baby |-> d]

\* will_you_move: never for an animal that has moved, nor with fitness 0;
\* d is the draw: Stay or the direction of where_will_you_move
Dirs == {<<-1, 0>>, <<1, 0>>, <<0, -1>>, <<0, 1>>}
Stay == <<0, 0>>
MoveDraws == {Stay} \cup Dirs
WillYouMove(an, d) == ~an.has_moved /\ an.weight > 0 /\ d # Stay

\* -------------------------------------------------------------- UnitArea
\* UnitArea.__init__(loc, geo, herbs, carns): the lists as given, [] for None
UnitAreaInit(g, herbs, carns) == [herbs |-> herbs, carns |-> carns]

\* add_herb / add_carn: ValueError on a cell no animal may enter
AddHerb(cell, g, an) ==
    IF ~CanAnimalsMoveHere(g) THEN [cell |-> cell, err |-> "ValueError"]
    ELSE [cell |-> [cell EXCEPT !.herbs = Append(@, an)], err |-> "none"]

AddCarnAnywhere(cell, g, an) ==
    [cell |-> [cell EXCEPT !.carns = Append(@, an)], err |-> "none"]

AddCarn(cell, g, an) ==
    IF ~CanAnimalsMoveHere(g) THEN [cell |-> cell, err |-> "ValueError"]
    ELSE [cell |-> [cell EXCEPT !.carns = Append(@, an)], err |-> "none"]

\* add_herbs / add_carns: the geography is tested before the (possibly empty) extend
AddHerbs(cell, g, ans) ==
    IF ~CanAnimalsMoveHere(g) THEN [cell |-> cell, err |-> "ValueError"]
    ELSE [cell |-> [cell EXCEPT !.herbs = @ \o ans], err |-> "none"]

AddCarns(cell, g, ans) ==
    IF ~CanAnimalsMoveHere(g) THEN [cell |-> cell, err |-> "ValueError"]
    ELSE [cell |-> [cell EXCEPT !.carns = @ \o ans], err |-> "none"]

\* _make_babies_of: every animal of the list procreates with the length of
\* the list at entry; the newborns are returned, not yet in the list
\* (variant: the newborns made so far are counted too)
NoAnimalsWithBabies(animals, babies) == Len(animals) + Len(babies)

\* no_animals = len(animals), taken once before the loop
NoAnimals(animals, babies) == Len(animals)

\* calls lists the procreate calls made: the animal and the n it was given
RECURSIVE BabiesLoop(_, _, _, _, _, _, _)
BabiesLoop(k, animals, babies, draw, pr, firstId, calls) ==
    IF k > Len(animals) THEN [parents |-> animals, babies |-> babies, calls |-> calls]
    ELSE LET n == NoAnimals(animals, babies)
             r == Procreate(animals[k], n, draw[k], pr)
         IN  BabiesLoop(k + 1, [animals EXCEPT ![k] = r.parent],
                        IF r.baby = 0 THEN babies
                        ELSE Append(babies, Animal(firstId + Len(babies), 0, r.baby)),
                        draw, pr, firstId,
                        Append(calls, [id |-> animals[k].id, n |-> n]))

MakeBabiesOf(animals, draw, pr, firstId) ==
    BabiesLoop(1, animals, <<>>, draw, pr, firstId, <<>>)

\* make_babies: herbivores first, then carnivores; add_herbs raises on water
\* before the carnivores procreate
AreaMakeBabies(cell, g, drawH, drawC, firstId) ==
    LET rh == MakeBabiesOf(cell.herbs, drawH, HerbParams, firstId)
        ah == AddHerbs([cell EXCEPT !.herbs = rh.parents], g, rh.babies)
        rc == MakeBabiesOf(cell.carns, drawC, CarnParams, firstId + Len(rh.babies))
        ac == AddCarns([ah.cell EXCEPT !.carns = rc.parents], g, rc.babies)
    IN  IF ah.err # "none"
        THEN [cell |-> ah.cell, err |-> ah.err,
              bornH |-> Len(rh.babies), bornC |-> 0,
              calls |-> [Herbivore |-> rh.calls, Carnivore |-> <<>>]]
        ELSE [cell |-> ac.cell, err |-> ac.err,
              bornH |-> Len(rh.babies), bornC |-> Len(rc.babies),
              calls |-> [Herbivore |-> rh.calls, Carnivore |-> rc.calls]]

\* (variant: n indices drawn one by one, an index may come twice)
ShufflesWithRepeats(n) == [1..n -> 1..n]

\* the orders random.shuffle may leave a list of n indices in
Shuffles(n) == {f \in [1..n -> 1..n] : \A i, j \in 1..n : f[i] = f[j] => i = j}

\* the feeding loop of _herbivores_eat: herbivores eat in the shuffled order
\* until no fodder remains; trace lists the fodder before each turn and at
\* the end
RECURSIVE FeedInOrder(_, _, _, _, _)
FeedInOrder(k, herbs, order, fodder, trace) ==
    IF k > Len(herbs) \/ fodder <= 0
    THEN [herbs |-> herbs, trace |-> Append(trace, fodder)]
    ELSE LET r == FeedAndGainWeight(herbs[order[k]], fodder)
         IN  FeedInOrder(k + 1, [herbs EXCEPT ![order[k]] = r.animal], order,
                         r.left, Append(trace, fodder))

\* (variant: the fodder starts at f_max of Lowland whatever the geography)
HerbivoresEatLowland(herbs, g, order) == FeedInOrder(1, herbs, order, FMax("L"), <<>>)

\* _herbivores_eat: the fodder starts at f_max of the cell's geography
HerbivoresEat(herbs, g, order) == FeedInOrder(1, herbs, order, FMax(g), <<>>)

\* (variant: key carn.fitness)
CarnBeforeAscending(a, b) == FitLess(Fitness(a, CarnParams), Fitness(b, CarnParams))

\* key -carn.fitness: a carnivore goes before those of smaller fitness
CarnBefore(a, b) == FitLess(Fitness(b, CarnParams), Fitness(a, CarnParams))
\* key herb.fitness: a herbivore goes before those of greater fitness
HerbBefore(a, b) == FitLess(Fitness(a, HerbParams), Fitness(b, HerbParams))
Before(sp, a, b) == IF sp = "Carnivore" THEN CarnBefore(a, b) ELSE HerbBefore(a, b)

\* list.sort(key) is stable: x goes after the elements it is not before
RECURSIVE InsertSorted(_, _, _)
InsertSorted(x, s, sp) ==
    IF s = <<>> THEN <<x>>
    ELSE IF Before(sp, x, Head(s)) THEN <<x>> \o s
    ELSE <<Head(s)>> \o InsertSorted(x, Tail(s), sp)

RECURSIVE SortBy(_, _)
SortBy(s, sp) ==
    IF s = <<>> THEN <<>>
    ELSE InsertSorted(s[Len(s)], SortBy(SubSeq(s, 1, Len(s) - 1), sp), sp)

\* feed_on_herbivores_and_gain_weight: the carnivore goes through the
\* herbivores in the order given with appetite F; K holds the herbivores the
\* kill draw succeeds for (it cannot succeed unless the carnivore is fitter)
RECURSIVE HuntLoop(_, _, _, _, _, _)
HuntLoop(i, carn, herbs, K, appetite, eaten) ==
    IF i > Len(herbs) \/ appetite <= 0 THEN [carn |-> carn, eaten |-> eaten]
    ELSE LET h == herbs[i]
             kill == /\ h.id \in K
                     /\ FitLess(Fitness(h, HerbParams), Fitness(carn, CarnParams))
             bite == Min(h.weight, appetite)
         IN  IF kill
             THEN HuntLoop(i + 1, [carn EXCEPT !.weight = @ + CarnParams.beta * bite],
                           herbs, K, appetite - bite, eaten \cup {h.id})
             ELSE HuntLoop(i + 1, carn, herbs, K, appetite, eaten)

FeedOnHerbivores(carn, herbs, K) == HuntLoop(1, carn, herbs, K, CarnParams.F, {})

\* (variant: the herbivores eaten stay in the list)
WithoutEatenKeepsAll(herbs, eaten) == herbs

\* self._herbs = [herb for herb in self._herbs if herb not in eaten_herbs]
WithoutEaten(herbs, eaten) == SelectSeq(herbs, LAMBDA h : h.id \notin eaten)

\* the loop of _carnivores_eat over the sorted carnivores: the herbivores a
\* carnivore ate leave the list before the next carnivore hunts. hunts
\* lists the calls of feed_on_herbivores_and_gain_weight: the carnivore as
\* it was, the list it was given and the herbivores it ate
RECURSIVE CarnLoop(_, _, _, _, _, _)
CarnLoop(k, carns, herbs, kills, eaten, hunts) ==
    IF k > Len(carns)
    THEN [carns |-> carns, herbs |-> herbs, eaten |-> eaten, hunts |-> hunts]
    ELSE LET r == FeedOnHerbivores(carns[k], herbs, kills[k])
         IN  CarnLoop(k + 1, [carns EXCEPT ![k] = r.carn],
                      WithoutEaten(herbs, r.eaten),
                      kills, eaten \cup r.eaten,
                      Append(hunts, [carn |-> carns[k], prey |-> herbs,
                                     eaten |-> r.eaten]))

\* _carnivores_eat: both lists are sorted in place first
CarnivoresEat(cell, kills) ==
    LET r == CarnLoop(1, SortBy(cell.carns, "Carnivore"),
                      SortBy(cell.herbs, "Herbivore"), kills, {}, <<>>)
    IN  [cell |-> [herbs |-> r.herbs, carns |-> r.carns], eaten |-> r.eaten,
         hunts |-> r.hunts]

\* eat: _herbivores_eat, then _carnivores_eat
AreaEat(cell, g, order, kills) ==
    LET rh == HerbivoresEat(cell.herbs, g, order)
        rc == CarnivoresEat([cell EXCEPT !.herbs = rh.herbs], kills)
    IN  [cell |-> rc.cell, eaten |-> rc.eaten, trace |-> rh.trace,
         gain |-> SumWeights(rh.herbs) - SumWeights(cell.herbs),
         grazed |-> rh.herbs, hunts |-> rc.hunts]

\* a Python list index: negative indices count from the end, an index past
\* the end raises IndexError (-1 here)
PyIndex(i, n) == IF i >= n \/ i < 0 - n THEN 0 - 1 ELSE IF i < 0 THEN i + n ELSE i

\* (variant: the cell is returned whether or not animals can move there)
MigrateToAnyCell(an, row, col, d, geo) ==
    IF ~WillYouMove(an, d) THEN 0
    ELSE LET r == PyIndex(row + d[1], Rows)
             k == PyIndex(col + d[2], Cols)
         IN  IF r < 0 \/ k < 0 THEN 0 - 1 ELSE CellAt(r, k)

\* _migrate_to: the cell the animal goes to, 0 for None, -1 for IndexError
MigrateTo(an, row, col, d, geo) ==
    IF ~WillYouMove(an, d) THEN 0
    ELSE LET r == PyIndex(row + d[1], Rows)
             k == PyIndex(col + d[2], Cols)
         IN  IF r < 0 \/ k < 0 THEN 0 - 1
             ELSE IF CanAnimalsMoveHere(geo[CellAt(r, k)]) THEN CellAt(r, k) ELSE 0

\* the coordinates cells[row + d[0]][col + d[1]] is read at
Target(src, d) == <<RowOf(src) + d[1], ColOf(src) + d[2]>>

AddTo(cell, g, an, field) ==
    IF field = "herbs" THEN AddHerb(cell, g, an) ELSE AddCarn(cell, g, an)

\* (variant: the flag is not set)
MarkMovedNot(an) == an

\* has_moved = True on the animal just moved (one object, also while it is
\* still in the list of the cell it leaves)
MarkMoved(an) == [an EXCEPT !.has_moved = TRUE]

\* (variant: the animals moved are kept and the others dropped)
RemoveMovedInverted(list, to_remove) == SelectSeq(list, LAMBDA a : a.id \in to_remove)

\* (variant: the moved animals are not taken out of the list)
RemoveMovedKeepsAll(list, to_remove) == list

\* the list without the animals of to_remove
RemoveMoved(list, to_remove) == SelectSeq(list, LAMBDA a : a.id \notin to_remove)

\* one loop of wander_away over the list `field` of cell src. to_remove is
\* the list of the animals moved, tried the coordinates add_herb / add_carn
\* was called for, refused the animals that would move and were not let to
\* (no cell there, or one no animal can move to), one entry for each time.
\* An exception leaves the loop before the list is filtered.
RECURSIVE WanderLoop(_, _, _, _, _, _, _, _, _)
WanderLoop(k, src, field, cs, geo, draw, to_remove, tried, refused) ==
    IF k > Len(cs[src][field])
    THEN [cells |-> [cs EXCEPT ![src][field] = RemoveMoved(@, to_remove)],
          err |-> "none", moved |-> to_remove, tried |-> tried, refused |-> refused]
    ELSE LET an == cs[src][field][k]
             to == MigrateTo(an, RowOf(src), ColOf(src), draw[k], geo)
         IN  IF to = 0
             THEN WanderLoop(k + 1, src, field, cs, geo, draw, to_remove, tried,
                             IF WillYouMove(an, draw[k]) THEN Append(refused, an.id)
                             ELSE refused)
             ELSE IF to < 0
             THEN [cells |-> cs, err |-> "IndexError", moved |-> to_remove,
                   tried |-> tried, refused |-> Append(refused, an.id)]
             ELSE LET a == AddTo(cs[to], geo[to], an, field)
                  IN  IF a.err # "none"
                      THEN [cells |-> cs, err |-> a.err, moved |-> to_remove,
                            tried |-> tried \cup {Target(src, draw[k])},
                            refused |-> refused]
                      ELSE WanderLoop(k + 1, src, field,
                               [cs EXCEPT ![to] = [a.cell EXCEPT
                                    ![field][Len(a.cell[field])] = MarkMoved(an)],
                                          ![src][field][k] = MarkMoved(an)],
                               geo, draw, to_remove \cup {an.id},
                               tried \cup {Target(src, draw[k])}, refused)

\* wander_away: the herbivores of the cell, then its carnivores
AreaWanderAway(src, cs, geo, drawH, drawC) ==
    LET rh == WanderLoop(1, src, "herbs", cs, geo, drawH, {}, {}, <<>>)
        rc == WanderLoop(1, src, "carns", rh.cells, geo, drawC, {}, {}, <<>>)
    IN  IF rh.err # "none" THEN rh
        ELSE [cells |-> rc.cells, err |-> rc.err,
              moved |-> rh.moved \cup rc.moved, tried |-> rh.tried \cup rc.tried,
              refused |-> rh.refused \o rc.refused]

\* grow_old, get_thin
AreaGrowOld(cell) ==
    [herbs |-> [i \in 1..Len(cell.herbs) |-> GetOlder(cell.herbs[i])],
     carns |-> [i \in 1..Len(cell.carns) |-> GetOlder(cell.carns[i])]]

AreaGetThin(cell) ==
    [herbs |-> [i \in 1..Len(cell.herbs) |-> LoseWeight(cell.herbs[i])],
     carns |-> [i \in 1..Len(cell.carns) |-> LoseWeight(cell.carns[i])]]

\* maybe_die: the animals for which maybe_die() is true leave both lists;
\* D holds the animals the death draw succeeds for
Dies(an, D) == MustDie(an) \/ an.id \in D

\* (variant: only the herbivores are checked)
AreaMaybeDieHerbsOnly(cell, D) ==
    [herbs |-> SelectSeq(cell.herbs, LAMBDA a : ~Dies(a, D)), carns |-> cell.carns]

AreaMaybeDie(cell, D) ==
    [herbs |-> SelectSeq(cell.herbs, LAMBDA a : ~Dies(a, D)),
     carns |-> SelectSeq(cell.carns, LAMBDA a : ~Dies(a, D))]

\* reset_animal_move_flag
ClearMoved(an) == [an EXCEPT !.has_moved = FALSE]
AreaResetMoveFlagHerbsOnly(cell) ==
    [herbs |-> [i \in 1..Len(cell.herbs) |-> ClearMoved(cell.herbs[i])],
     carns |-> cell.carns]

AreaResetMoveFlag(cell) ==
    [herbs |-> [i \in 1..Len(cell.herbs) |-> ClearMoved(cell.herbs[i])],
     carns |-> [i \in 1..Len(cell.carns) |-> ClearMoved(cell.carns[i])]]

\* ---------------------------------------------------------------- BioSim
\* BioSim._make_babies: the herbivores only; add_herbs only if there are
\* newborns
SimMakeBabiesOf(cell, g, draw, firstId) ==
    LET rh == MakeBabiesOf(cell.herbs, draw, HerbParams, firstId)
        ah == AddHerbs([cell EXCEPT !.herbs = rh.parents], g, rh.babies)
    IN  IF rh.babies = <<>>
        THEN [cell |-> [cell EXCEPT !.herbs = rh.parents], err |-> "none", bornH |-> 0]
        ELSE [cell |-> ah.cell, err |-> ah.err, bornH |-> Len(rh.babies)]

\* BioSim._eat: the feeding loop over the herbivores, fodder from f_max
SimEatOf(cell, g, order) ==
    LET rh == FeedInOrder(1, cell.herbs, order, FMax(g), <<>>)
    IN  [cell |-> [cell EXCEPT !.herbs = rh.herbs], trace |-> rh.trace,
         gain |-> SumWeights(rh.herbs) - SumWeights(cell.herbs)]

\* BioSim._wander_away: "TODO migration", the body is pass
SimWanderAwayOf(c, cs) == cs

\* BioSim._grow_old, _get_thin, _meet_your_maker: the herbivores only
SimGrowOldOf(cell) == [cell EXCEPT !.herbs = [i \in 1..Len(@) |-> GetOlder(@[i])]]
SimGetThinOf(cell) == [cell EXCEPT !.herbs = [i \in 1..Len(@) |-> LoseWeight(@[i])]]
SimMeetYourMakerOf(cell, D) ==
    [cell EXCEPT !.herbs = SelectSeq(@, LAMBDA a : ~Dies(a, D))]

\* the individuals of a population in the order of its two nested loops,
\* each with the location of its record
RECURSIVE Individuals(_)
Individuals(pop) ==
    IF pop = <<>> THEN <<>>
    ELSE [i \in 1..Len(Head(pop).pop) |->
             [loc |-> Head(pop).loc, species |-> Head(pop).pop[i].species,
              age |-> Head(pop).pop[i].age, weight |-> Head(pop).pop[i].weight]]
         \o Individuals(Tail(pop))

\* _populate_island: the individuals in the order of the population list,
\* each created and added to the cell of its record; the first error ends
\* the loading with the animals added so far in place
RECURSIVE PopulateLoop(_, _, _, _, _, _)
PopulateLoop(k, inds, cs, geo, cnt, firstId) ==
    IF k > Len(inds) THEN [cells |-> cs, err |-> "none", count |-> cnt]
    ELSE LET p == inds[k]
             an == Animal(firstId + k - 1, p.age, p.weight)
             a == IF p.species = "Herbivore"
                  THEN AddHerb(cs[p.loc], geo[p.loc], an)
                  ELSE AddCarn(cs[p.loc], geo[p.loc], an)
         IN  IF p.species \notin Species
             THEN [cells |-> cs, err |-> "ValueError", count |-> cnt]
             ELSE IF a.err # "none"
             THEN [cells |-> cs, err |-> a.err,
                   count |-> [cnt EXCEPT ![p.species] = @ + 1]]
             ELSE PopulateLoop(k + 1, inds, [cs EXCEPT ![p.loc] = a.cell], geo,
                               [cnt EXCEPT ![p.species] = @ + 1], firstId)

PopulateIsland(pop, cs, geo, firstId) ==
    PopulateLoop(1, Individuals(pop), cs, geo, [sp \in Species |-> 0], firstId)

\* the populations an island is loaded with: a list of records, each a
\* the populations an island is loaded with: a list of records, each a
\* location and the list of the individuals to place there; inner cells A
\* and B, border cells W0 (first row) and S0 (last row). Ages and weights
\* reach the constructors as they are given, negative ones too
A == CellAt(1, 1)
B == CellAt(1, 2)
W0 == CellAt(0, 1)
S0 == CellAt(Rows - 1, 1)
Ind(sp, a, w) == [species |-> sp, age |-> a, weight |-> w]
Rec(c, pop) == [loc |-> c, pop |-> pop]
Pops == {
    <<>>,
    <<Rec(A, <<Ind("Herbivore", 1, 3)>>)>>,
    <<Rec(A, <<Ind("Herbivore", 0, 1), Ind("Herbivore", 1, 2)>>)>>,
    <<Rec(A, <<Ind("Herbivore", 1, 2), Ind("Carnivore", 0, 4)>>)>>,
    <<Rec(A, <<Ind("Carnivore", 1, 2), Ind("Carnivore", 0, 3)>>)>>,
    <<Rec(B, <<Ind("Herbivore", 0, 3)>>), Rec(A, <<Ind("Carnivore", 1, 4)>>)>>,
    <<Rec(A, <<Ind("Herbivore", 1, 3)>>), Rec(W0, <<Ind("Carnivore", 1, 4)>>)>>,
    <<Rec(B, <<Ind("Carnivore", 0, 3), Ind("Dog", 1, 4)>>)>>,
    <<Rec(A, <<Ind("Herbivore", 1, 3)>>), Rec(W0, <<>>)>>,
    <<Rec(A, <<Ind("Herbivore", -1, -1)>>)>>,
    <<Rec(A, <<Ind("Herbivore", 1, 1), Ind("Carnivore", 1, 3), Ind("Carnivore", 0, 4)>>)>> }

\* ----------------------------------------------------------------- state
VARIABLES
    rng,      \* the generator of the random module: its place in Stream
    twin,     \* two runs on the same arguments, compared (run 0: no comparison)
    island_map, \* the island_map argument of BioSim: its lines, or None
    geo,      \* the geography code of every cell
    visit,    \* the cells the annual cycle calls the operations on
    cells,    \* the herbs and carns lists of every cell
    count,    \* the live counters of the two Fauna classes
    nextId,   \* identity of the next animal object created
    pc,       \* "made", "ready", "sim", "done"
    err,      \* the exception raised, "none" if none
    nyears,   \* num_years of the running simulate call
    year,     \* the year of the loop of simulate
    pos,      \* the cell of the loop of simulate
    phase,    \* the next statement of the loop body, 1..6
    applied,  \* per cell and species, the phases run on its list this year
    ini_pop,  \* the population handed to _populate_island
    dead,     \* the animals removed by predation or death
    moves,    \* per animal, the cell changes in this year
    origin,   \* per animal, its cell at the start of this year (or at birth)
    last,     \* the last operation and what it recorded
    turns     \* per animal, the turns the operations of a cell gave it this year

vars == <<rng, twin, island_map, geo, visit, cells, count, nextId, pc, err, nyears, year, pos, phase,
          applied, ini_pop, dead, moves, origin, last, turns>>

AnimalIds == 1..MaxAnimals
\* the turns counted: feed_and_gain_weight, feed_on_herbivores_and_gain_weight,
\* lose_weight and maybe_die calls on the animal, from 0 at the start of a year
Turns == {"fed", "hunted", "thinned", "checked"}
NoTurns == [i \in AnimalIds |-> [t \in Turns |-> 0]]
\* n(i) more calls of one kind on every animal i (2 stands for 2 or more)
Took(t, what, n) ==
    [i \in AnimalIds |->
        [t[i] EXCEPT ![what] = IF @ + n[i] > 2 THEN 2 ELSE @ + n[i]]]
Phases == <<"procreation", "feeding", "migration", "aging", "weight_loss", "death">>
NoneApplied == [c \in CellIds |-> [sp \in Species |-> <<>>]]
\* what the last operation recorded: the fodder before each turn of the
\* feeding loop and the weight the herbivores gained; the coordinates
\* wander_away called add_herb / add_carn for; the animals of weight <= 0
\* that maybe_die met; the animals that changed cell in the year before;
\* the params argument of set_animal_parameters / set_landscape_parameters;
\* the lists make_babies found in the cell and the procreate calls it made
\* (for eat: the lists before the carnivores eat); the hunts of the carnivores;
\* the moves wander_away did not let an animal make
NoOp == [op |-> "none", cell |-> 0, trace |-> <<>>, gain |-> 0, tried |-> {},
         starved |-> {}, moved |-> {}, arg |-> [key |-> "", value |-> 0],
         start |-> [sp \in Species |-> <<>>], calls |-> [sp \in Species |-> <<>>],
         hunts |-> <<>>, refused |-> <<>>]

\* the draws of n procreate calls: no young, or the weight of the young
BirthDraws(n) == [1..n -> {0} \cup BirthWeights]

\* ----------------------------------------------- the random generator
\* The random module holds one generator for the whole process. It is
\* modelled as a place in a fixed cycle of numbers: a draw reads the number
\* at the place and moves one on, random.seed(seed) sets the place.
Stream == <<2, 0, 3, 1, 1, 2, 0>>
Seeds == {1, 4}
\* (variant: the generator stays where it is)
ReseedNot(x, seed) == x

\* random.seed(seed)
Reseed(x, seed) == ((seed - 1) % Len(Stream)) + 1

\* the place of the generator after k draws
After(k) == ((rng - 1 + k) % Len(Stream)) + 1

\* twin.run = 0: the generator is left open and any draw can come; run 1
\* and run 2: the draws are those of the generator, first and second hold
\* the years of the two runs (the grid at the end of the year and the
\* draws made in it), log the draws of the year so far
NoTwin == [run |-> 0, seed |-> 0, pop |-> <<>>, years |-> 0,
           first |-> <<>>, second |-> <<>>, log |-> <<>>]

\* random.shuffle(x): for i from the last place down to the second, the
\* item at i changes place with the one at randbelow(i + 1)
RECURSIVE FisherYates(_, _, _)
FisherYates(order, i, k) ==
    IF i < 2 THEN order
    ELSE LET j == (Stream[After(k)] % i) + 1
         IN  FisherYates([order EXCEPT ![i] = order[j], ![j] = order[i]], i - 1, k + 1)

\* the orders random.shuffle may leave a list of n indices in
ShuffleChoices(n) ==
    IF twin.run = 0 THEN Shuffles(n) ELSE {FisherYates([i \in 1..n |-> i], n, 0)}

\* the draws of n procreate calls, one draw each: young on an odd number
BirthChoices(n) ==
    IF twin.run = 0 THEN BirthDraws(n)
    ELSE {[k \in 1..n |-> IF Stream[After(k - 1)] % 2 = 1
                           THEN CHOOSE w \in BirthWeights : TRUE ELSE 0]}

\* the draws of the maybe_die calls on a list, one draw each: death on 0
DeathChoices(animals) ==
    IF twin.run = 0 THEN SUBSET Ids(animals)
    ELSE {{animals[k].id : k \in {j \in 1..Len(animals) : Stream[After(j - 1)] = 0}}}

\* twin after k draws of a kind were made; grid is the grid then and ends
\* tells that the year ends with them
Drew(kind, k, grid, ends) ==
    LET log == IF k > 0 THEN Append(twin.log, <<kind, k>>) ELSE twin.log
        yr == [cells |-> grid, draws |-> log]
    IN  IF twin.run = 0 THEN twin
        ELSE IF ~ends THEN [twin EXCEPT !.log = log]
        ELSE IF twin.run = 1 THEN [twin EXCEPT !.log = <<>>, !.first = Append(@, yr)]
        ELSE [twin EXCEPT !.log = <<>>, !.second = Append(@, yr)]

\* the cell an animal is in, 0 if in none
Holds(cell, i) == i \in Ids(cell.herbs) \cup Ids(cell.carns)
WhereIn(cs, i) == IF \E c \in CellIds : Holds(cs[c], i)
                  THEN CHOOSE c \in CellIds : Holds(cs[c], i) ELSE 0

\* the cells an annual cycle goes through: the whole grid, or the cells
\* animals can be in
VisitSets(g) == {CellIds, {c \in CellIds : CanAnimalsMoveHere(g[c])}}

\* the state after _make_island: every cell UnitArea(loc, geo), no animals
Init ==
    /\ rng = 1 /\ twin = NoTwin
    /\ geo \in Maps
    /\ island_map = Given(LinesOf(geo))
    /\ visit \in VisitSets(geo)
    /\ cells = [c \in CellIds |-> UnitAreaInit(geo[c], <<>>, <<>>)]
    /\ count = [sp \in Species |-> 0]
    /\ nextId = 1
    /\ pc = "made"
    /\ err = "none"
    /\ nyears = 0 /\ year = 0 /\ pos = 1 /\ phase = 1
    /\ applied = NoneApplied
    /\ ini_pop = <<>>
    /\ dead = {}
    /\ moves = [i \in AnimalIds |-> 0]
    /\ origin = [i \in AnimalIds |-> 0]
    /\ last = NoOp
    /\ turns = NoTurns

\* BioSim.__init__ after _make_island: _populate_island(ini_pop)
Populate ==
    /\ pc = "made" /\ err = "none"
    /\ \E pop \in IF twin.run = 0 THEN Pops ELSE {twin.pop} :
         LET r == PopulateIsland(pop, cells, geo, nextId)
         IN  /\ nextId - 1 + Len(Individuals(pop)) <= MaxAnimals
             /\ cells' = r.cells
             /\ err' = r.err
             /\ count' = r.count
             /\ nextId' = nextId + Len(Individuals(pop))
             /\ ini_pop' = pop
             /\ origin' = [i \in AnimalIds |-> WhereIn(r.cells, i)]
             /\ last' = [NoOp EXCEPT !.op = "populate"]
    /\ pc' = "ready"
    /\ UNCHANGED <<turns, rng, twin, island_map, geo, visit, nyears, year, pos, phase, applied, dead, moves>>

Starved(cell) ==
    {cell.herbs[i].id : i \in {j \in 1..Len(cell.herbs) : cell.herbs[j].weight <= 0}}
    \cup {cell.carns[i].id : i \in {j \in 1..Len(cell.carns) : cell.carns[j].weight <= 0}}

AllIn(cell) == Ids(cell.herbs) \cup Ids(cell.carns)

\* ------------------------------------------------- BioSim.simulate steps
Log(c, ph) ==
    LET base == IF pos = 1 /\ phase = 1 THEN NoneApplied ELSE applied
    IN  [base EXCEPT ![c]["Herbivore"] = Append(@, Phases[ph])]

\* the loop of simulate moves on: next statement, next cell, next year
Advance ==
    /\ phase' = IF phase < 6 THEN phase + 1 ELSE 1
    /\ pos' = IF phase < 6 THEN pos ELSE IF pos < NCells THEN pos + 1 ELSE 1
    /\ year' = IF phase = 6 /\ pos = NCells THEN year + 1 ELSE year
    /\ pc' = IF phase = 6 /\ pos = NCells /\ year + 1 = nyears THEN "done" ELSE "sim"

Stepping(ph) == pc = "sim" /\ err = "none" /\ phase = ph

\* simulate(num_years) is called
SimStart ==
    /\ pc = "ready" /\ err = "none"
    /\ \E n \in IF twin.run = 0 THEN 1..MaxYears ELSE {twin.years} : nyears' = n
    /\ pc' = "sim" /\ year' = 0 /\ pos' = 1 /\ phase' = 1
    /\ applied' = NoneApplied
    /\ last' = [NoOp EXCEPT !.op = "simulate"]
    /\ UNCHANGED <<turns, rng, twin, island_map, geo, visit, cells, count, nextId, err, ini_pop, dead, moves, origin>>

SimMakeBabies ==
    /\ Stepping(1)
    /\ \E draw \in BirthChoices(Len(cells[pos].herbs)) :
         LET r == SimMakeBabiesOf(cells[pos], geo[pos], draw, nextId)
         IN  /\ nextId + r.bornH - 1 <= MaxAnimals
             /\ cells' = [cells EXCEPT ![pos] = r.cell]
             /\ err' = r.err
             /\ nextId' = nextId + r.bornH
             /\ count' = [count EXCEPT !["Herbivore"] = @ + r.bornH]
             /\ origin' = [i \in AnimalIds |->
                             IF i >= nextId /\ i < nextId + r.bornH THEN pos
                             ELSE origin[i]]
    /\ applied' = Log(pos, 1)
    /\ last' = [NoOp EXCEPT !.op = "make_babies", !.cell = pos]
    /\ rng' = IF twin.run = 0 THEN rng ELSE After(Len(cells[pos].herbs))
    /\ twin' = Drew("procreate", Len(cells[pos].herbs), cells', FALSE)
    /\ Advance
    /\ UNCHANGED <<turns, island_map, geo, visit, nyears, ini_pop, dead, moves>>

SimEat ==
    /\ Stepping(2)
    /\ \E order \in ShuffleChoices(Len(cells[pos].herbs)) :
         LET r == SimEatOf(cells[pos], geo[pos], order)
         IN  /\ cells' = [cells EXCEPT ![pos] = r.cell]
             /\ last' = [NoOp EXCEPT !.op = "eat", !.cell = pos,
                                     !.trace = r.trace, !.gain = r.gain]
    /\ applied' = Log(pos, 2)
    /\ rng' = IF twin.run = 0 \/ Len(cells[pos].herbs) < 2 THEN rng
              ELSE After(Len(cells[pos].herbs) - 1)
    /\ twin' = Drew("shuffle", IF Len(cells[pos].herbs) < 2 THEN 0
                               ELSE Len(cells[pos].herbs) - 1, cells', FALSE)
    /\ Advance
    /\ UNCHANGED <<turns, island_map, geo, visit, count, nextId, err, nyears, ini_pop, dead, moves, origin>>

SimWanderAway ==
    /\ Stepping(3)
    /\ cells' = SimWanderAwayOf(pos, cells)
    /\ last' = [NoOp EXCEPT !.op = "wander_away", !.cell = pos]
    /\ Advance
    /\ UNCHANGED <<turns, rng, twin, island_map, geo, visit, count, nextId, err, nyears, applied, ini_pop, dead, moves, origin>>

SimGrowOld ==
    /\ Stepping(4)
    /\ cells' = [cells EXCEPT ![pos] = SimGrowOldOf(@)]
    /\ applied' = Log(pos, 4)
    /\ last' = [NoOp EXCEPT !.op = "grow_old", !.cell = pos]
    /\ Advance
    /\ UNCHANGED <<turns, rng, twin, island_map, geo, visit, count, nextId, err, nyears, ini_pop, dead, moves, origin>>

SimGetThin ==
    /\ Stepping(5)
    /\ cells' = [cells EXCEPT ![pos] = SimGetThinOf(@)]
    /\ applied' = Log(pos, 5)
    /\ last' = [NoOp EXCEPT !.op = "get_thin", !.cell = pos]
    /\ Advance
    /\ UNCHANGED <<turns, rng, twin, island_map, geo, visit, count, nextId, err, nyears, ini_pop, dead, moves, origin>>

SimMeetYourMaker ==
    /\ Stepping(6)
    /\ \E D \in DeathChoices(cells[pos].herbs) :
         /\ cells' = [cells EXCEPT ![pos] = SimMeetYourMakerOf(@, D)]
         /\ dead' = dead \cup (AllIn(cells[pos]) \ AllIn(cells'[pos]))
    /\ applied' = Log(pos, 6)
    /\ last' = [NoOp EXCEPT !.op = "maybe_die", !.cell = pos,
                   !.starved = Starved(cells[pos])]
    /\ rng' = IF twin.run = 0 THEN rng ELSE After(Len(cells[pos].herbs))
    /\ twin' = Drew("maybe_die", Len(cells[pos].herbs), cells', pos = NCells)
    /\ Advance
    /\ UNCHANGED <<turns, island_map, geo, visit, count, nextId, err, nyears, ini_pop, moves, origin>>

\* the names a params dict may hold, for a species and for a landscape
ParamKeys(kind) ==
    IF kind \in Species
    THEN {"w_birth", "sigma_birth", "beta", "eta", "a_half", "phi_age", "w_half",
          "phi_weight", "mu", "gamma", "zeta", "xi", "omega", "F", "DeltaPhiMax"}
    ELSE {"f_max"}
\* params dicts of one item: an accepted one, a negative value, an unknown name
Overrides(kind) ==
    IF kind \in Species
    THEN {[key |-> "F", value |-> 5], [key |-> "eta", value |-> -1],
          [key |-> "speed", value |-> 1]}
    ELSE {[key |-> "f_max", value |-> 5], [key |-> "f_max", value |-> -1],
          [key |-> "fodder", value |-> 1]}

\* set_animal_parameters(species, params): the body is the docstring alone
SetAnimalParameters ==
    /\ pc = "ready" /\ err = "none"
    /\ \E species \in Species : \E params \in Overrides(species) :
         last' = [NoOp EXCEPT !.op = "set_animal_parameters", !.arg = params]
    /\ UNCHANGED <<turns, rng, twin, island_map, geo, visit, cells, count, nextId, pc, err, nyears, year,
                   pos, phase, applied, ini_pop, dead, moves, origin>>

\* set_landscape_parameters(landscape, params): the body is the docstring alone
SetLandscapeParameters ==
    /\ pc = "ready" /\ err = "none"
    /\ \E landscape \in GeoCodes : \E params \in Overrides(landscape) :
         last' = [NoOp EXCEPT !.op = "set_landscape_parameters", !.arg = params]
    /\ UNCHANGED <<turns, rng, twin, island_map, geo, visit, cells, count, nextId, pc, err, nyears, year,
                   pos, phase, applied, ini_pop, dead, moves, origin>>

Next ==
    \/ Populate
    \/ SetAnimalParameters
    \/ SetLandscapeParameters
    \/ SimStart
    \/ SimMakeBabies
    \/ SimEat
    \/ SimWanderAway
    \/ SimGrowOld
    \/ SimGetThin
    \/ SimMeetYourMaker

Spec == Init /\ [][Next]_vars

\* ------------------------------ UnitArea operations in the annual cycle
\* The docstrings of UnitArea number the steps of the annual cycle: the move
\* flags are reset at its start (step 0 here), then make_babies (1), eat (2),
\* wander_away (3), grow_old (4), get_thin (5), maybe_die (6). In each step
\* the operation is called on the cells of visit in row-major order.
Pending == {c \in visit : c >= pos}
Calling(ph, c) ==
    /\ pc = "ready" /\ err = "none" /\ phase = ph
    /\ c \in Pending /\ \A d \in Pending : c <= d

\* cell.reset_animal_move_flag()
ResetMoveFlag(c) ==
    /\ Calling(0, c)
    /\ pos' = c + 1
    /\ cells' = [cells EXCEPT ![c] = AreaResetMoveFlag(@)]
    /\ last' = [NoOp EXCEPT !.op = "reset", !.cell = c, !.moved = last.moved]
    /\ UNCHANGED <<turns, rng, twin, island_map, geo, visit, count, nextId, pc, err, nyears, year, phase, applied, ini_pop,
                   dead, moves, origin>>

\* cell.make_babies()
MakeBabies(c) ==
    /\ Calling(1, c)
    /\ pos' = c + 1
    /\ \E drawH \in BirthDraws(Len(cells[c].herbs)),
          drawC \in BirthDraws(Len(cells[c].carns)) :
         \E r \in {AreaMakeBabies(cells[c], geo[c], drawH, drawC, nextId)} :
         \E born \in {r.bornH + r.bornC} :
             /\ nextId + born - 1 <= MaxAnimals
             /\ cells' = [cells EXCEPT ![c] = r.cell]
             /\ err' = r.err
             /\ nextId' = nextId + born
             /\ count' = [count EXCEPT !["Herbivore"] = @ + r.bornH,
                                       !["Carnivore"] = @ + r.bornC]
             /\ origin' = [i \in AnimalIds |->
                             IF i >= nextId /\ i < nextId + born THEN c ELSE origin[i]]
             /\ last' = [NoOp EXCEPT !.op = "make_babies", !.cell = c,
                                     !.start = [Herbivore |-> cells[c].herbs,
                                                Carnivore |-> cells[c].carns],
                                     !.calls = r.calls]
    /\ UNCHANGED <<turns, rng, twin, island_map, geo, visit, pc, nyears, year, phase, applied, ini_pop, dead, moves>>

\* cell.eat()
Eat(c) ==
    /\ Calling(2, c)
    /\ pos' = c + 1
    /\ \E order \in Shuffles(Len(cells[c].herbs)),
          kills \in [1..Len(cells[c].carns) -> SUBSET Ids(cells[c].herbs)] :
         \E r \in {AreaEat(cells[c], geo[c], order, kills)} :
             /\ cells' = [cells EXCEPT ![c] = r.cell]
             /\ count' = [count EXCEPT !["Herbivore"] = @ - Cardinality(r.eaten)]
             /\ dead' = dead \cup r.eaten
             /\ last' = [NoOp EXCEPT !.op = "eat", !.cell = c,
                                     !.trace = r.trace, !.gain = r.gain,
                                     !.start = [Herbivore |-> r.grazed,
                                                Carnivore |-> cells[c].carns],
                                     !.hunts = r.hunts]
             /\ turns' = Took(Took(turns, "fed",
                                 [i \in AnimalIds |-> Cardinality(
                                     {k \in 1..(Len(last'.trace) - 1) :
                                          cells[c].herbs[order[k]].id = i})]),
                             "hunted",
                             [i \in AnimalIds |-> Cardinality(
                                 {k \in 1..Len(last'.hunts) :
                                      last'.hunts[k].carn.id = i})])
    /\ UNCHANGED <<rng, twin, island_map, geo, visit, nextId, pc, err, nyears, year, phase, applied, ini_pop,
                   moves, origin>>

\* cell.wander_away(row, col, cells) with the cell's own row and column
WanderAway(c) ==
    /\ Calling(3, c)
    /\ pos' = c + 1
    /\ \E drawH \in [1..Len(cells[c].herbs) -> MoveDraws],
          drawC \in [1..Len(cells[c].carns) -> MoveDraws] :
         \E r \in {AreaWanderAway(c, cells, geo, drawH, drawC)} :
             /\ cells' = r.cells
             /\ err' = r.err
             /\ moves' = [i \in AnimalIds |->
                            IF i \in r.moved THEN moves[i] + 1 ELSE moves[i]]
             /\ last' = [NoOp EXCEPT !.op = "wander_away", !.cell = c,
                                     !.tried = r.tried, !.refused = r.refused]
    /\ UNCHANGED <<turns, rng, twin, island_map, geo, visit, count, nextId, pc, nyears, year, phase, applied, ini_pop, dead,
                   origin>>

\* cell.grow_old()
GrowOld(c) ==
    /\ Calling(4, c)
    /\ pos' = c + 1
    /\ cells' = [cells EXCEPT ![c] = AreaGrowOld(@)]
    /\ last' = [NoOp EXCEPT !.op = "grow_old", !.cell = c]
    /\ UNCHANGED <<turns, rng, twin, island_map, geo, visit, count, nextId, pc, err, nyears, year, phase, applied,
                   ini_pop, dead, moves, origin>>

\* cell.get_thin()
GetThin(c) ==
    /\ Calling(5, c)
    /\ pos' = c + 1
    /\ cells' = [cells EXCEPT ![c] = AreaGetThin(@)]
    /\ last' = [NoOp EXCEPT !.op = "get_thin", !.cell = c]
    /\ turns' = Took(turns, "thinned",
                     [i \in AnimalIds |-> CountIn(cells[c].herbs, i)
                                            + CountIn(cells[c].carns, i)])
    /\ UNCHANGED <<rng, twin, island_map, geo, visit, count, nextId, pc, err, nyears, year, phase, applied,
                   ini_pop, dead, moves, origin>>

\* cell.maybe_die()
MaybeDie(c) ==
    /\ Calling(6, c)
    /\ pos' = c + 1
    /\ \E D \in SUBSET AllIn(cells[c]) :
         /\ cells' = [cells EXCEPT ![c] = AreaMaybeDie(@, D)]
         /\ dead' = dead \cup (AllIn(cells[c]) \ AllIn(cells'[c]))
    /\ last' = [NoOp EXCEPT !.op = "maybe_die", !.cell = c,
                   !.starved = Starved(cells[c]) \cup
                       (IF last.op = "maybe_die" THEN last.starved ELSE {})]
    /\ turns' = Took(turns, "checked",
                     [i \in AnimalIds |-> CountIn(cells[c].herbs, i)
                                            + CountIn(cells[c].carns, i)])
    /\ UNCHANGED <<rng, twin, island_map, geo, visit, count, nextId, pc, err, nyears, year, phase, applied,
                   ini_pop, moves, origin>>

\* the step of the annual cycle ends: the next step starts at the first
\* cell, after maybe_die the next year starts
NextStep ==
    /\ pc = "ready" /\ err = "none"
    /\ Pending = {}
    /\ phase = 6 => year + 1 < MaxYears
    /\ phase' = (phase + 1) % 7
    /\ pos' = 1
    /\ year' = IF phase = 6 THEN year + 1 ELSE year
    /\ moves' = IF phase = 6 THEN [i \in AnimalIds |-> 0] ELSE moves
    /\ origin' = IF phase = 6 THEN [i \in AnimalIds |-> WhereIn(cells, i)] ELSE origin
    /\ last' = IF phase = 6
               THEN [NoOp EXCEPT !.moved = {i \in AnimalIds : moves[i] > 0}]
               ELSE last
    /\ turns' = IF phase = 6 THEN NoTurns ELSE turns
    /\ UNCHANGED <<rng, twin, island_map, geo, visit, cells, count, nextId, pc, err, nyears, applied, ini_pop, dead>>

AreaNext ==
    \/ Populate
    \/ NextStep
    \/ \E c \in CellIds : ResetMoveFlag(c)
    \/ \E c \in CellIds : MakeBabies(c)
    \/ \E c \in CellIds : Eat(c)
    \/ \E c \in CellIds : WanderAway(c)
    \/ \E c \in CellIds : GrowOld(c)
    \/ \E c \in CellIds : GetThin(c)
    \/ \E c \in CellIds : MaybeDie(c)

AreaSpec == Init /\ [][AreaNext]_vars

\* cells built with animals: UnitArea(loc, geo, herbs) for one cell, an inner
\* one or one of the border, the others as _make_island builds them; the
\* operations are called from make_babies on, or from wander_away on
CtorInit ==
    /\ rng = 1 /\ twin = NoTwin
    /\ geo \in Maps
    /\ island_map = Given(LinesOf(geo))
    /\ visit \in VisitSets(geo)
    /\ \E c \in {A, W0, S0} :
         /\ cells = [d \in CellIds |->
                       IF d = c THEN UnitAreaInit(geo[d], <<Animal(1, 1, 3)>>, <<>>)
                       ELSE UnitAreaInit(geo[d], <<>>, <<>>)]
         /\ origin = [i \in AnimalIds |-> IF i = 1 THEN c ELSE 0]
    /\ count = [sp \in Species |-> IF sp = "Herbivore" THEN 1 ELSE 0]
    /\ nextId = 2
    /\ pc = "made"
    /\ err = "none"
    /\ nyears = 0 /\ year = 0 /\ pos = 1 /\ phase \in {1, 3}
    /\ applied = NoneApplied
    /\ ini_pop = <<>>
    /\ dead = {}
    /\ moves = [i \in AnimalIds |-> 0]
    /\ last = NoOp
    /\ turns = NoTurns

CtorSpec == CtorInit /\ [][AreaNext]_vars

\* ------------------------------------------------ BioSim from its map on
\* BioSim(island_map, ini_pop, seed) is called: no island yet
BioSimInit ==
    /\ rng = 1 /\ twin = NoTwin
    /\ island_map \in RawMaps
    /\ geo = <<>>
    /\ visit = CellIds
    /\ cells = <<>>
    /\ count = [sp \in Species |-> 0]
    /\ nextId = 1
    /\ pc = "new"
    /\ err = "none"
    /\ nyears = 0 /\ year = 0 /\ pos = 1 /\ phase = 1
    /\ applied = NoneApplied
    /\ ini_pop = <<>>
    /\ dead = {}
    /\ moves = [i \in AnimalIds |-> 0]
    /\ origin = [i \in AnimalIds |-> 0]
    /\ last = NoOp
    /\ turns = NoTurns

\* BioSim.__init__: self._make_island(island_map); an exception leaves
\* __init__ before _populate_island
MakeIsland ==
    /\ pc = "new"
    /\ LET e == MakeIslandOf(island_map)
       IN  /\ err' = e
           /\ pc' = IF e = "none" THEN "made" ELSE "failed"
           /\ geo' = IF e = "none" THEN GeoOf(island_map.rows) ELSE geo
           /\ cells' = IF e = "none"
                       THEN [c \in CellIds |->
                               UnitAreaInit(GeoOf(island_map.rows)[c], <<>>, <<>>)]
                       ELSE cells
    /\ last' = [NoOp EXCEPT !.op = "make_island"]
    /\ UNCHANGED <<turns, rng, twin, island_map, visit, count, nextId, nyears, year, pos, phase, applied,
                   ini_pop, dead, moves, origin>>

BioSimNext ==
    \/ MakeIsland
    \/ Next

BioSimSpec == BioSimInit /\ [][BioSimNext]_vars

\* ------------------------------------------- two runs on one set of arguments
\* BioSim(island_map, ini_pop, seed) has seeded the generator, which was
\* anywhere before, and made the island; pop, seed and years are the
\* arguments of both runs
SeedInit ==
    /\ \E x \in 1..Len(Stream) : \E seed \in Seeds :
         /\ rng = Reseed(x, seed)
         /\ \E pop \in Pops : \E n \in 1..MaxYears :
              twin = [NoTwin EXCEPT !.run = 1, !.seed = seed, !.pop = pop, !.years = n]
    /\ geo \in Maps
    /\ island_map = Given(LinesOf(geo))
    /\ visit = CellIds
    /\ cells = [c \in CellIds |-> UnitAreaInit(geo[c], <<>>, <<>>)]
    /\ count = [sp \in Species |-> 0]
    /\ nextId = 1
    /\ pc = "made"
    /\ err = "none"
    /\ nyears = 0 /\ year = 0 /\ pos = 1 /\ phase = 1
    /\ applied = NoneApplied
    /\ ini_pop = <<>>
    /\ dead = {}
    /\ moves = [i \in AnimalIds |-> 0]
    /\ origin = [i \in AnimalIds |-> 0]
    /\ last = NoOp
    /\ turns = NoTurns

\* the first run is over and BioSim(island_map, ini_pop, seed) is called a
\* second time in the process: random.seed(seed), a new island without
\* animals, new animal objects
Rerun ==
    /\ pc = "done" /\ twin.run = 1
    /\ twin' = [twin EXCEPT !.run = 2]
    /\ rng' = Reseed(rng, twin.seed)
    /\ cells' = [c \in CellIds |-> UnitAreaInit(geo[c], <<>>, <<>>)]
    /\ nextId' = 1
    /\ pc' = "made"
    /\ nyears' = 0 /\ year' = 0 /\ pos' = 1 /\ phase' = 1
    /\ applied' = NoneApplied
    /\ ini_pop' = <<>>
    /\ dead' = {}
    /\ moves' = [i \in AnimalIds |-> 0]
    /\ origin' = [i \in AnimalIds |-> 0]
    /\ last' = [NoOp EXCEPT !.op = "rerun"]
    /\ UNCHANGED <<turns, island_map, geo, visit, count, err>>

SeedNext ==
    \/ Rerun
    \/ Next

SeedSpec == SeedInit /\ [][SeedNext]_vars

\* ================================================================ claims
AnimalsOf(cell) == {cell.herbs[i] : i \in 1..Len(cell.herbs)} \cup
                   {cell.carns[i] : i \in 1..Len(cell.carns)}
RECURSIVE OccUpTo(_, _)
OccUpTo(n, i) ==
    IF n = 0 THEN 0
    ELSE CountIn(cells[n].herbs, i) + CountIn(cells[n].carns, i) + OccUpTo(n - 1, i)
\* how often animal i is in the lists of the grid
Occ(i) == OccUpTo(NCells, i)
Created == 1..(nextId - 1)
IsPrefix(s, t) == Len(s) <= Len(t) /\ s = SubSeq(t, 1, Len(s))
\* simulate is between two years (or has returned)
YearEnd == pc \in {"sim", "done"} /\ year > 0 /\ pos = 1 /\ phase = 1
Abs(x) == IF x < 0 THEN 0 - x ELSE x
Near(o, c) == o = c \/ Abs(RowOf(o) - RowOf(c)) + Abs(ColOf(o) - ColOf(c)) = 1
AllWater == \A c \in CellIds : geo[c] = "W"
\* a map the construction has to refuse for its shape
Misshapen(map) == ~map.none /\ (~Rectangular(map.rows) \/ ~WaterBorder(map.rows))
\* nothing has been loaded and no year simulated
\* population loading has just returned or raised
Loaded == pc = "ready" /\ last.op = "populate"
OnWater(rec) == geo[rec.loc] = "W"
Unknown(rec) == \E i \in 1..Len(rec.pop) : rec.pop[i].species \notin Species
\* every individual of the population is in the list of its species of the
\* cell of its record, with the age and weight given
AllPlaced(pop) ==
    \A j \in 1..Len(Individuals(pop)) :
        LET p == Individuals(pop)[j]
            list == IF p.species = "Herbivore" THEN cells[p.loc].herbs
                    ELSE cells[p.loc].carns
        IN  \E k \in 1..Len(list) :
                list[k].id = j /\ list[k].age = p.age /\ list[k].weight = p.weight
Records(pop) == {pop[k] : k \in 1..Len(pop)}
NothingLoaded == ini_pop = <<>> /\ cells = <<>> /\ nextId = 1 /\ year = 0

\* C1: in every year of simulate the six phases are applied in the order
\* procreation, feeding, migration, aging, weight loss, death: the phases
\* applied to the list of either species of any cell are always a prefix of
\* that order, and at the end of a year every cell and both species have had
\* all six, once each.
C1_SixPhasesBothSpecies ==
    /\ \A c \in CellIds, sp \in Species : IsPrefix(applied[c][sp], Phases)
    /\ YearEnd => \A c \in CellIds, sp \in Species : applied[c][sp] = Phases

\* C2: migration is one pass over the grid: when wander_away has run on a
\* cell, every cell has had procreation and feeding this year, and when
\* grow_old, get_thin or maybe_die has run on a cell, migration has visited
\* every cell. simulate goes through the cells in order, so the cells that
\* have had the earlier steps this year are those up to the last one.
C2_MigrationIsOnePass ==
    (pc \in {"sim", "done"} /\
     last.op \in {"wander_away", "grow_old", "get_thin", "maybe_die"})
        => \A d \in CellIds : d <= last.cell

\* C3: between operations every animal that was created and has not been
\* removed by predation or death is in the lists of the grid exactly once,
\* and no other animal is in them.
C3_OneCellOnce ==
    err = "none" =>
        \A i \in AnimalIds : Occ(i) = IF i \in Created \ dead THEN 1 ELSE 0

\* an animal that has moved is still held exactly once
C3_Witness ==
    /\ err = "none"
    /\ \E i \in AnimalIds : moves[i] = 1 /\ Occ(i) = 1 /\ origin[i] # WhereIn(cells, i)

\* C4: an animal changes cell at most once a year: it has moved at most
\* once, its flag is true once it has moved, and the cell it is in is the
\* cell it started the year in or an orthogonal neighbour of it.
C4_MovesAtMostOnce ==
    \A c \in CellIds : \A an \in AnimalsOf(cells[c]) :
        /\ moves[an.id] <= 1
        /\ moves[an.id] = 1 => an.has_moved
        /\ Near(origin[an.id], c)

\* wander_away has run on the cell an animal moved into from an earlier
\* cell, and the animal is still there
C4_Witness ==
    /\ last.op = "wander_away"
    /\ \E an \in AnimalsOf(cells[last.cell]) :
         moves[an.id] = 1 /\ origin[an.id] < last.cell

\* C5: wander_away calls add_herb / add_carn only for coordinates inside the
\* grid whose cell animals can move to, and reads no cell outside the grid.
C5_MovesOnlyOntoPassable ==
    /\ err # "IndexError"
    /\ \A t \in last.tried :
         /\ t[1] \in 0..(Rows - 1) /\ t[2] \in 0..(Cols - 1)
         /\ CanAnimalsMoveHere(geo[CellAt(t[1], t[2])])

\* wander_away has moved an animal out of a cell next to water
C5_Witness ==
    /\ last.op = "wander_away" /\ last.tried # {}
    /\ \E d \in Dirs :
         LET t == Target(last.cell, d)
         IN  ~CanAnimalsMoveHere(geo[CellAt(t[1], t[2])])

\* C6: a cell animals cannot move to has empty herbs and carns lists in
\* every state.
C6_WaterCellsEmpty ==
    \A c \in CellIds :
        ~CanAnimalsMoveHere(geo[c]) => cells[c].herbs = <<>> /\ cells[c].carns = <<>>

\* C7: between two years of simulate (and when it has returned) every animal
\* of the initial population that is still in a cell has its initial age
\* plus the number of years simulated.
C7_AgeIsInitialPlusYears ==
    (pc \in {"sim", "done"} /\ pos = 1 /\ phase = 1) =>
        \A c \in CellIds : \A an \in AnimalsOf(cells[c]) :
            an.id <= Len(Individuals(ini_pop)) =>
                an.age = Individuals(ini_pop)[an.id].age + year

\* C8: in every feeding of a cell the fodder starts at f_max of the cell's
\* geography, is never negative, and the herbivores of the cell gain what
\* was taken from it, at most beta * f_max.
C8_FodderPool ==
    last.op = "eat" =>
        LET t == last.trace
            f == FMax(geo[last.cell])
        IN  /\ Len(t) >= 1 /\ t[1] = f
            /\ \A k \in 1..Len(t) : t[k] >= 0
            /\ last.gain = HerbParams.beta * (t[1] - t[Len(t)])
            /\ last.gain <= HerbParams.beta * f

\* in a later year two herbivores have eaten all the fodder of their cell
C8_Witness ==
    /\ last.op = "eat" /\ year >= 1
    /\ Len(last.trace) >= 3
    /\ last.gain = FMax(geo[last.cell]) /\ last.gain > 0

C10_AllWaterRuns ==
    (AllWater /\ pc = "ready" /\ ini_pop = <<>>) =>
        /\ err = "none"
        /\ \A c \in CellIds : AnimalsOf(cells[c]) = {}

\* C11: for a map whose lines are not of equal length, or that has a cell
\* other than Water in its first or last row or column, BioSim(...) raises
\* an error in _make_island: no population is loaded and no year simulated.
C11_BadShapeFailsConstruction ==
    Misshapen(island_map) =>
        /\ pc \in {"new", "failed"}
        /\ pc = "failed" => err # "none"
        /\ NothingLoaded

\* the construction has failed for a map of valid codes that is misshapen
C11_Witness ==
    /\ pc = "failed" /\ err = "ValueError"
    /\ Misshapen(island_map) /\ ~Miscoded(island_map.rows)

\* C12: _assign_geo gives a Geography exactly for W, D, L and H and raises
\* for every other code, and BioSim(...) fails for a map holding a character
\* that is none of the four.
C12_OnlyFourCodes ==
    /\ \A code \in Codes : (AssignGeo(code).err = "none") <=> (code \in {"W", "D", "L", "H"})
    /\ (~island_map.none /\ Miscoded(island_map.rows)) =>
           /\ pc \in {"new", "failed"}
           /\ pc = "failed" => err = "ValueError"
           /\ NothingLoaded
    /\ pc \notin {"new", "failed"} => \A c \in CellIds : geo[c] \in {"W", "D", "L", "H"}

\* the construction has failed for a well-shaped map with a character that
\* is no code
C12_Witness ==
    /\ pc = "failed" /\ err = "ValueError"
    /\ ~island_map.none /\ ~Misshapen(island_map)
    /\ \E p \in Places(island_map.rows) :
         island_map.rows[p[1]][p[2]] \notin {"W", "D", "L", "H"}

\* C13 as stated: loading places both species on Highland, Lowland and
\* Desert without error, fails for every record located on a Water cell and
\* fails for every individual of an unknown species.
C13_EveryWaterRecordFails ==
    Loaded =>
        /\ (\A rec \in Records(ini_pop) : ~OnWater(rec) /\ ~Unknown(rec)) =>
               err = "none" /\ AllPlaced(ini_pop)
        /\ (\E rec \in Records(ini_pop) : OnWater(rec)) => err # "none"
        /\ (\E rec \in Records(ini_pop) : Unknown(rec)) => err # "none"

\* C13 amended: loading places both species on Highland, Lowland and Desert
\* without error, fails for every record on a Water cell that holds at least
\* one individual, and fails for every individual of an unknown species; a
\* record with an empty list of individuals adds nothing and raises nothing.
C13_WaterRecordWithAnimalsFails ==
    Loaded =>
        /\ (\A rec \in Records(ini_pop) :
                ~(OnWater(rec) /\ rec.pop # <<>>) /\ ~Unknown(rec)) =>
               err = "none" /\ AllPlaced(ini_pop)
        /\ (\E rec \in Records(ini_pop) : OnWater(rec) /\ rec.pop # <<>>) =>
               err = "ValueError"
        /\ (\E rec \in Records(ini_pop) : Unknown(rec)) => err = "ValueError"

\* loading has failed at a carnivore of a record on Water, after a herbivore
\* was placed on land
C13_Witness ==
    /\ Loaded /\ err = "ValueError"
    /\ \E rec \in Records(ini_pop) :
         OnWater(rec) /\ rec.pop # <<>> /\ ~Unknown(rec)
    /\ \E rec \in Records(ini_pop) : ~OnWater(rec) /\ rec.pop # <<>>

\* C14: when loading fails, no animal of the population is in any cell and
\* the live counters are what they were before (zero).
C14_LoadingAllOrNothing ==
    (Loaded /\ err # "none") =>
        /\ \A c \in CellIds : AnimalsOf(cells[c]) = {}
        /\ \A sp \in Species : count[sp] = 0

\* C19: loading fails for an individual of negative age or negative weight,
\* and no animal of negative age or of weight <= 0 is in a cell after loading.
C19_NoNegativeAnimalLoaded ==
    Loaded =>
        /\ (\E j \in 1..Len(Individuals(ini_pop)) :
                Individuals(ini_pop)[j].age < 0 \/ Individuals(ini_pop)[j].weight < 0) =>
               err # "none"
        /\ \A c \in CellIds : \A an \in AnimalsOf(cells[c]) :
               an.age >= 0 /\ an.weight > 0

C16_CountsMatchCells ==
    (pc = "ready" /\ err = "none" /\ phase = 6 /\ Pending = {}) =>
        /\ count["Herbivore"] = Cardinality(UNION {Ids(cells[c].herbs) : c \in CellIds})
        /\ count["Carnivore"] = Cardinality(UNION {Ids(cells[c].carns) : c \in CellIds})

\* C17: a parameter override with a name outside the recognized set, or
\* with a negative value, ends with an error.
C17_BadOverrideRejected ==
    /\ (last.op = "set_animal_parameters" /\
           (last.arg.key \notin ParamKeys("Herbivore") \/ last.arg.value < 0)) =>
           err # "none"
    /\ (last.op = "set_landscape_parameters" /\
           (last.arg.key \notin ParamKeys("L") \/ last.arg.value < 0)) =>
           err # "none"

C21_HuntOrder ==
    last.op = "eat" =>
        LET hunts == last.hunts
            pack == last.start["Carnivore"]
            herd == last.start["Herbivore"]
            Gone(k) == UNION {hunts[m].eaten : m \in 1..(k - 1)}
        IN  /\ Len(hunts) = Len(pack)
            /\ \A i \in 1..Len(pack) : \E k \in 1..Len(hunts) : hunts[k].carn = pack[i]
            /\ \A k, m \in 1..Len(hunts) :
                   k < m => FitLeq(Fitness(hunts[m].carn, CarnParams),
                                   Fitness(hunts[k].carn, CarnParams))
            /\ \A k \in 1..Len(hunts) :
                   /\ Ids(hunts[k].prey) = Ids(herd) \ Gone(k)
                   /\ \A i, j \in 1..Len(hunts[k].prey) :
                          i < j => FitLeq(Fitness(hunts[k].prey[i], HerbParams),
                                          Fitness(hunts[k].prey[j], HerbParams))

\* two carnivores have hunted, the one second in the list of the cell
\* first, being the fitter, and the first was given a herbivore
C21_Witness ==
    /\ last.op = "eat" /\ Len(last.hunts) = 2
    /\ last.hunts[1].carn = last.start["Carnivore"][2]
    /\ FitLess(Fitness(last.hunts[2].carn, CarnParams),
               Fitness(last.hunts[1].carn, CarnParams))
    /\ last.hunts[1].prey # <<>>

\* C22: a herbivore a carnivore ate is not in the list a later carnivore of
\* the cell is given, is eaten by no second carnivore, and is not in the
\* cell when eat returns.
C22_KilledPreyIsRemoved ==
    last.op = "eat" =>
        \A k \in 1..Len(last.hunts) :
            /\ last.hunts[k].eaten \subseteq Ids(last.hunts[k].prey)
            /\ last.hunts[k].eaten \cap Ids(cells[last.cell].herbs) = {}
            /\ \A m \in 1..Len(last.hunts) :
                   k < m => /\ last.hunts[k].eaten \cap Ids(last.hunts[m].prey) = {}
                            /\ last.hunts[k].eaten \cap last.hunts[m].eaten = {}

\* the first of two carnivores ate the herbivore of the cell, the second
\* hunted after it and was given an empty list
C22_Witness ==
    /\ last.op = "eat" /\ Len(last.hunts) = 2
    /\ last.hunts[1].eaten # {}
    /\ last.hunts[2].prey = <<>>
    /\ cells[last.cell].herbs = <<>>

\* C24: a move wander_away does not let an animal make, its destination
\* being no cell of the grid or a cell no animal can move to, raises no
\* error; the animal is in the cell it was in and in no other, its flag is
\* not set, it is asked once in the call, and a call in which no animal
\* moved leaves every cell as it was.
C24_AbandonedMoveStays ==
    [][last'.op = "wander_away" =>
          \A k \in 1..Len(last'.refused) :
              LET x == last'.refused[k]
              IN  /\ err' = "none"
                  /\ \E an \in AnimalsOf(cells'[last'.cell]) : an.id = x /\ ~an.has_moved
                  /\ \A c \in CellIds \ {last'.cell} : x \notin AllIn(cells'[c])
                  /\ moves'[x] = moves[x]
                  /\ \A m \in 1..Len(last'.refused) : last'.refused[m] = x => m = k
                  /\ moves' = moves => cells' = cells]_vars

\* C25: wander_away leaves the number of animals of each species on the
\* grid, and the age and weight of every animal, as they were; a cell other
\* than the one it is called on changes only by animals of that cell added
\* at the end of its lists, and the cell it is called on only by losing the
\* animals that moved.
C25_MigrationOnlyRelocates ==
    [][last'.op = "wander_away" =>
          LET src == last'.cell
              Bare(list) == {[id |-> list[k].id, age |-> list[k].age,
                              weight |-> list[k].weight] : k \in 1..Len(list)}
              Slots(cs, f, on) == {p \in on \X (1..MaxAnimals) :
                                       p[2] <= Len(cs[p[1]][f])}
          IN  \A f \in {"herbs", "carns"} :
                LET changed == {c \in CellIds : cells'[c][f] # cells[c][f]}
                IN  /\ Cardinality(Slots(cells', f, changed))
                         = Cardinality(Slots(cells, f, changed))
                    /\ \A c \in changed : Len(cells'[c][f]) <= MaxAnimals
                    /\ UNION {Bare(cells'[c][f]) : c \in changed}
                         = UNION {Bare(cells[c][f]) : c \in changed}
                    /\ cells'[src][f] = SelectSeq(cells[src][f],
                                            LAMBDA a : a.id \in Ids(cells'[src][f]))
                    /\ \A c \in changed \ {src} :
                           /\ Near(src, c)
                           /\ IsPrefix(cells[c][f], cells'[c][f])
                           /\ Ids(cells'[c][f]) \ Ids(cells[c][f])
                                  \subseteq Ids(cells[src][f])]_vars

\* wander_away has moved a herbivore out of a cell and left a carnivore in it
C25_Witness ==
    /\ last.op = "wander_away" /\ err = "none"
    /\ cells[last.cell].carns # <<>>
    /\ \E c \in CellIds \ {last.cell} : \E an \in AnimalsOf(cells[c]) :
         an.has_moved /\ origin[an.id] = last.cell /\ an.id \in Ids(cells[c].herbs)

====
